---- MODULE Spec2Model ----
(***************************************************************************)
(* A model of bkanhu/dev-toolkit:                                          *)
(*   - useLocalStorage (react-hooks/use-local-storage.tsx): several tabs   *)
(*     sharing one localStorage entry, with React's render / effect steps  *)
(*     and the browser's storage events;                                   *)
(*   - useScroll (the scroll-threshold hook);                              *)
(*   - timeDifference (typescript-utils/date-utils.ts);                    *)
(*   - nameInitials (typescript-utils/string-utils.ts).                    *)
(***************************************************************************)
EXTENDS Integers, Sequences, FiniteSets

VARIABLES
    \* ---- useLocalStorage ----
    store,          \* the localStorage entry under the hook's key
    storeOrigin,    \* history: who wrote the entry last, and which value
    phase,          \* per tab: "unmounted", "rendered" (effect not run yet), "listening"
    storedValue,    \* per tab: the state the last render returned (and setValue closes over)
    pending,        \* per tab: the value given to setStoredValue since the last render
    queue,          \* per tab: storage events of the hook's key dispatched to the tab, not yet run
    ideal,          \* reference, per tab: the state a useState setter would hold (SyncSpec)
    \* ---- useScroll ----
    scrollY,        \* window.scrollY
    threshold,      \* the threshold argument of the last render
    scrolled,       \* the hook's state
    scrollPhase,    \* "unmounted" or "mounted"
    listener,       \* the threshold the registered onScroll closes over, or NoListener
    \* ---- timeDifference ----
    date1, date2,   \* the two arguments, in epoch milliseconds
    diffResult,     \* the returned object, or NoResult before the call
    \* ---- nameInitials ----
    fullName,       \* the argument, a sequence of characters
    initials        \* the returned string (or the thrown TypeError), or NoInitials

hookVars == <<store, storeOrigin, phase, storedValue, pending, queue>>
scrollVars == <<scrollY, threshold, scrolled, scrollPhase, listener>>
timeVars == <<date1, date2, diffResult>>
nameVars == <<fullName, initials>>
vars == <<hookVars, ideal, scrollVars, timeVars, nameVars>>

(***************************************************************************)
(* Bounds                                                                  *)
(***************************************************************************)
MaxNum == 1
MaxQueue == 1
MaxScroll == 3
MaxDays == 2
MaxLen == 5

Tabs == {"tabA", "tabB"}

(***************************************************************************)
(* JavaScript values of the hook's type T, and the text localStorage keeps *)
(***************************************************************************)
Num(n) == [t |-> "number", v |-> n]
Null == [t |-> "null", v |-> 0]
NaN == [t |-> "NaN", v |-> 0]
Undefined == [t |-> "undefined", v |-> 0]
Cyclic == [t |-> "cyclic", v |-> 0]
NoPending == [t |-> "none", v |-> 0]

Numbers == {Num(n) : n \in 0..MaxNum}
Values == Numbers \cup {Null, NaN, Cyclic}
\* The initialValue argument each tab's component passes to the hook.
initialValue == [t \in Tabs |-> IF t = "tabA" THEN Num(0) ELSE Null]

Key == "k"
OtherKey == "other"
ClearedKey == "null"

NoItem == [present |-> FALSE, text |-> ""]
Item(s) == [present |-> TRUE, text |-> s]

DigitText == <<"0", "1", "2", "3", "4", "5", "6", "7", "8", "9">>

\* JSON.stringify(v), followed by the ToString that setItem applies to its
\* argument: a number gives its digits, null and NaN both give "null",
\* undefined gives undefined (stored as the text "undefined"), an object
\* with a cycle throws TypeError.
JSONstringify(v) ==
    CASE v.t = "number" -> [threw |-> FALSE, text |-> DigitText[v.v + 1]]
      [] v.t = "null" -> [threw |-> FALSE, text |-> "null"]
      [] v.t = "NaN" -> [threw |-> FALSE, text |-> "null"]
      [] v.t = "undefined" -> [threw |-> FALSE, text |-> "undefined"]
      [] OTHER -> [threw |-> TRUE, text |-> ""]

\* JSON.parse(s): digits give the number, "null" gives null, anything else
\* here ("", "undefined", "{oops") throws SyntaxError.
JSONparse(s) ==
    IF s = "null" THEN [threw |-> FALSE, val |-> Null]
    ELSE IF \E n \in 0..9 : DigitText[n + 1] = s
         THEN [threw |-> FALSE, val |-> Num(CHOOSE n \in 0..9 : DigitText[n + 1] = s)]
         ELSE [threw |-> TRUE, val |-> Undefined]

\* A variant of readValue that takes a parsed value that is falsy (0, null)
\* for a missing one.
ReadValueFalsy(item, initial) ==
    IF item.present /\ item.text # ""
    THEN LET p == JSONparse(item.text)
         IN IF p.threw
            THEN [val |-> initial, warned |-> TRUE, threw |-> FALSE]
            ELSE [val |-> IF p.val \in {Num(0), Null} THEN initial ELSE p.val,
                  warned |-> FALSE, threw |-> FALSE]
    ELSE [val |-> initial, warned |-> FALSE, threw |-> FALSE]

\* A variant of readValue without the try/catch: the SyntaxError of
\* JSON.parse escapes.
ReadValueUncaught(item, initial) ==
    IF item.present /\ item.text # ""
    THEN LET p == JSONparse(item.text)
         IN IF p.threw
            THEN [val |-> Undefined, warned |-> FALSE, threw |-> TRUE]
            ELSE [val |-> p.val, warned |-> FALSE, threw |-> FALSE]
    ELSE [val |-> initial, warned |-> FALSE, threw |-> FALSE]

\* readValue: getItem, then JSON.parse unless the item is null or ""; the
\* initial value when there is nothing to parse or JSON.parse throws (warned).
readValue(item, initial) ==
    IF item.present /\ item.text # ""
    THEN LET p == JSONparse(item.text)
         IN IF p.threw
            THEN [val |-> initial, warned |-> TRUE, threw |-> FALSE]
            ELSE [val |-> p.val, warned |-> FALSE, threw |-> FALSE]
    ELSE [val |-> initial, warned |-> FALSE, threw |-> FALSE]

\* The setter's argument: a literal, or the updater  c => c + 1.
Literal(v) == [fn |-> FALSE, v |-> v]
Updater == [fn |-> TRUE, v |-> Undefined]
Increment(v) ==
    CASE v.t = "number" -> Num(v.v + 1)
      [] v.t = "null" -> Num(1)
      [] OTHER -> NaN

\* A variant of setValue that, when the write fails, sets the state back to
\* the rendered value.
SetValueRevertsOnFailure(storedVal, value, item, quotaOK) ==
    LET valueToStore == IF value.fn THEN Increment(storedVal) ELSE value.v
        s == JSONstringify(valueToStore)
    IN IF s.threw \/ ~quotaOK
       THEN [valueToStore |-> valueToStore, newState |-> storedVal, item |-> item,
             outcome |-> IF s.threw THEN "stringifyThrew" ELSE "setItemThrew",
             warned |-> TRUE, threw |-> FALSE]
       ELSE [valueToStore |-> valueToStore, newState |-> valueToStore,
             item |-> Item(s.text), outcome |-> "ok", warned |-> FALSE, threw |-> FALSE]

\* A variant of setValue that serializes the rendered state instead of the
\* new value.
SetValueStoresOldState(storedVal, value, item, quotaOK) ==
    LET valueToStore == IF value.fn THEN Increment(storedVal) ELSE value.v
        s == JSONstringify(storedVal)
    IN IF s.threw \/ ~quotaOK
       THEN [valueToStore |-> valueToStore, newState |-> valueToStore, item |-> item,
             outcome |-> IF s.threw THEN "stringifyThrew" ELSE "setItemThrew",
             warned |-> TRUE, threw |-> FALSE]
       ELSE [valueToStore |-> valueToStore, newState |-> valueToStore,
             item |-> Item(s.text), outcome |-> "ok", warned |-> FALSE, threw |-> FALSE]

\* setValue(value), called in a render whose state is storedVal, with the
\* entry holding item; quotaOK says whether setItem finds room.
\*   newState: the argument of setStoredValue, NoPending when it is not called;
\*   item: the entry after the call.
setValue(storedVal, value, item, quotaOK) ==
    LET valueToStore == IF value.fn THEN Increment(storedVal) ELSE value.v
        s == JSONstringify(valueToStore)
    IN IF s.threw \/ ~quotaOK
       THEN [valueToStore |-> valueToStore, newState |-> valueToStore, item |-> item,
             outcome |-> IF s.threw THEN "stringifyThrew" ELSE "setItemThrew",
             warned |-> TRUE, threw |-> FALSE]
       ELSE [valueToStore |-> valueToStore, newState |-> valueToStore,
             item |-> Item(s.text), outcome |-> "ok", warned |-> FALSE, threw |-> FALSE]

(***************************************************************************)
(* Storage events                                                          *)
(***************************************************************************)
\* A write that changes the entry makes the browser dispatch a storage event
\* with event.key = key to every other window of the origin.  queue[u] counts
\* the events of that key waiting in window u (handleStorage reads nothing
\* of an event but its key).
Dispatch(others) == [u \in Tabs |-> IF u \in others THEN queue[u] + 1 ELSE queue[u]]
Room(others) == \A u \in others : queue[u] < MaxQueue

\* useScroll: no onScroll is registered.
NoListener == -1

\* timeDifference: a Date is an instant in epoch milliseconds, or invalid.
Instant(ms) == [valid |-> TRUE, ms |-> ms]
InvalidDate == [valid |-> FALSE, ms |-> 0]
NoResult == [called |-> FALSE, threw |-> FALSE,
             days |-> 0, hours |-> 0, minutes |-> 0, seconds |-> 0]

\* nameInitials: not called yet.
NoInitials == [called |-> FALSE, threw |-> FALSE, text |-> <<>>]

Origin(byHook, val) == [byHook |-> byHook, val |-> val]
NoOrigin == Origin(FALSE, Undefined)

HookIdle ==
    /\ store = NoItem
    /\ storeOrigin = NoOrigin
    /\ phase = [t \in Tabs |-> "unmounted"]
    /\ storedValue = [t \in Tabs |-> Undefined]
    /\ pending = [t \in Tabs |-> NoPending]
    /\ queue = [t \in Tabs |-> 0]
    /\ ideal = [t \in Tabs |-> Undefined]
ScrollIdle ==
    /\ scrollY = 0
    /\ threshold = 0
    /\ scrolled = FALSE
    /\ scrollPhase = "unmounted"
    /\ listener = NoListener
TimeIdle == date1 = Instant(0) /\ date2 = Instant(0) /\ diffResult = NoResult
NameIdle == fullName = <<>> /\ initials = NoInitials

(***************************************************************************)
(* useLocalStorage                                                         *)
(***************************************************************************)
\* First render: useState(readValue).
Mount(t) ==
    /\ phase[t] = "unmounted"
    /\ LET r == readValue(store, initialValue[t])
       IN /\ storedValue' = [storedValue EXCEPT ![t] = r.val]
    /\ pending' = [pending EXCEPT ![t] = NoPending]
    /\ phase' = [phase EXCEPT ![t] = "rendered"]
    /\ UNCHANGED <<store, storeOrigin, queue>>

\* The effect of the first render: addEventListener("storage", handleStorage).
Subscribe(t) ==
    /\ phase[t] = "rendered"
    /\ phase' = [phase EXCEPT ![t] = "listening"]
    /\ UNCHANGED <<store, storeOrigin, storedValue, pending, queue>>

\* Unmount: the effect's cleanup removes the listener; the state is gone.
Unmount(t) ==
    /\ phase[t] # "unmounted"
    /\ phase' = [phase EXCEPT ![t] = "unmounted"]
    /\ storedValue' = [storedValue EXCEPT ![t] = Undefined]
    /\ pending' = [pending EXCEPT ![t] = NoPending]
    /\ UNCHANGED <<store, storeOrigin, queue>>

\* React re-renders the component with the queued state.
Render(t) ==
    /\ phase[t] # "unmounted"
    /\ pending[t] # NoPending
    /\ storedValue' = [storedValue EXCEPT ![t] = pending[t]]
    /\ pending' = [pending EXCEPT ![t] = NoPending]
    /\ UNCHANGED <<store, storeOrigin, phase, queue>>

\* The component calls the setter of its last render.
SetValue(t, value, quotaOK) ==
    /\ phase[t] # "unmounted"
    /\ LET r == setValue(storedValue[t], value, store, quotaOK)
           changed == r.item # store
       IN /\ r.valueToStore.t = "number" => r.valueToStore.v <= MaxNum
          /\ changed => Room(Tabs \ {t})
          /\ pending' = [pending EXCEPT ![t] =
                            IF r.newState # NoPending THEN r.newState ELSE @]
          /\ store' = r.item
          /\ storeOrigin' = IF r.outcome = "ok"
                            THEN Origin(TRUE, r.valueToStore) ELSE storeOrigin
          /\ queue' = IF changed THEN Dispatch(Tabs \ {t}) ELSE queue
    /\ UNCHANGED <<phase, storedValue>>

\* A variant of handleStorage with the key test inverted.
HandleStorageOtherKeys(t, eventKey) ==
    IF eventKey # Key
    THEN LET r == readValue(store, initialValue[t])
         IN /\ pending' = [pending EXCEPT ![t] = r.val]
    ELSE pending' = pending

\* handleStorage(event): re-read the entry when event.key is the hook's key.
handleStorage(t, eventKey) ==
    IF eventKey = Key
    THEN LET r == readValue(store, initialValue[t])
         IN /\ pending' = [pending EXCEPT ![t] = r.val]
    ELSE pending' = pending

\* The tab's event loop runs the next storage event of the hook's key:
\* handleStorage when the listener is registered, nothing otherwise.
Deliver(t) ==
    /\ queue[t] > 0
    /\ queue' = [queue EXCEPT ![t] = @ - 1]
    /\ IF phase[t] = "listening"
       THEN handleStorage(t, Key)
       ELSE pending' = pending
    /\ UNCHANGED <<store, storeOrigin, phase, storedValue>>

\* A storage event of another key, or of clear() (event.key is null),
\* reaches the listener: such events can arrive at any moment.
DeliverForeign(t, eventKey) ==
    /\ phase[t] = "listening"
    /\ handleStorage(t, eventKey)
    /\ UNCHANGED <<store, storeOrigin, phase, storedValue, queue>>

\* Another script of the origin (not the hook) writes raw text under the
\* key, or removes it: every window gets an event of that key.
ExternalWrite(item) ==
    /\ item # store
    /\ Room(Tabs)
    /\ store' = item
    /\ storeOrigin' = NoOrigin
    /\ queue' = Dispatch(Tabs)
    /\ UNCHANGED <<phase, storedValue, pending>>

\* Another script calls localStorage.clear(): the entry is gone, and the
\* event it dispatches has key null (see DeliverForeign).
ExternalClear ==
    /\ store # NoItem
    /\ store' = NoItem
    /\ storeOrigin' = NoOrigin
    /\ UNCHANGED <<phase, storedValue, pending, queue>>

ExternalTexts == {"", "{oops"}

Others == UNCHANGED <<ideal, scrollVars, timeVars, nameVars>>

Init == HookIdle /\ ScrollIdle /\ TimeIdle /\ NameIdle

Next ==
    \/ \E t \in Tabs : Mount(t) /\ Others
    \/ \E t \in Tabs : Subscribe(t) /\ Others
    \/ \E t \in Tabs : Unmount(t) /\ Others
    \/ \E t \in Tabs : Render(t) /\ Others
    \/ \E t \in Tabs, q \in BOOLEAN : SetValue(t, Updater, q) /\ Others
    \/ \E t \in Tabs, v \in Values, q \in BOOLEAN : SetValue(t, Literal(v), q) /\ Others
    \/ \E t \in Tabs : Deliver(t) /\ Others
    \/ \E t \in Tabs, k \in {OtherKey, ClearedKey} : DeliverForeign(t, k) /\ Others
    \/ \E s \in ExternalTexts : ExternalWrite(Item(s)) /\ Others
    \/ ExternalWrite(NoItem) /\ Others
    \/ ExternalClear /\ Others

\* Every tab runs the hook, foreign scripts write the entry, setItem may
\* run out of quota, and values JSON cannot represent may be set.
Spec == Init /\ [][Next]_vars

\* The hook alone: every setter call succeeds (quota is never exceeded, every
\* value is a finite number or null) and nothing else writes the entry.
\* Beside the hook, ideal[t] follows what a conventional reactive-state
\* setter does with the same calls: a literal replaces the state, an updater
\* is applied to the state the preceding update produced, and a read of the
\* entry (first render, storage event) replaces it.
JSONValues == Numbers \cup {Null}
Rest == UNCHANGED <<scrollVars, timeVars, nameVars>>
Track(t, v) == ideal' = [ideal EXCEPT ![t] = v]
SyncNext ==
    \/ \E t \in Tabs : Mount(t) /\ Track(t, storedValue'[t]) /\ Rest
    \/ \E t \in Tabs : Subscribe(t) /\ UNCHANGED ideal /\ Rest
    \/ \E t \in Tabs : Unmount(t) /\ Track(t, Undefined) /\ Rest
    \/ \E t \in Tabs : Render(t) /\ UNCHANGED ideal /\ Rest
    \/ \E t \in Tabs :
          /\ Increment(ideal[t]).v <= MaxNum + 1
          /\ SetValue(t, Updater, TRUE) /\ Track(t, Increment(ideal[t])) /\ Rest
    \/ \E t \in Tabs, v \in JSONValues : SetValue(t, Literal(v), TRUE) /\ Track(t, v) /\ Rest
    \/ \E t \in Tabs :
          /\ Deliver(t) /\ Rest
          /\ IF phase[t] = "listening" THEN Track(t, pending'[t]) ELSE UNCHANGED ideal

SyncSpec == Init /\ [][SyncNext]_vars

(***************************************************************************)
(* Properties of useLocalStorage                                           *)
(***************************************************************************)
\* The values JSON represents exactly: finite numbers and null (of the
\* values modelled).
Serializable(v) == v.t \in {"number", "null"}

\* The state React holds for the hook: what the next render returns.
Latest(t) == IF pending[t] # NoPending THEN pending[t] ELSE storedValue[t]

\* The arguments a setter call may get, and the value it is to store.
Arguments == {Literal(v) : v \in Values} \cup {Updater}
NewValue(t, value) == IF value.fn THEN Increment(storedValue[t]) ELSE value.v

\* The step in which tab t's registered listener handles a storage event
\* of the hook's key.
Handled(t) == Deliver(t) /\ phase[t] = "listening"

\* What deserializing the entry gives: the value, or no value at all.
Deserialized(item) ==
    IF item.present /\ ~JSONparse(item.text).threw
    THEN JSONparse(item.text).val ELSE NoPending

\* The entry is absent (never written, removed, cleared) or holds text
\* that does not deserialize.
Unreadable(item) == ~item.present \/ JSONparse(item.text).threw

C2_AsClaimed ==
    [][\A t \in Tabs, value \in Arguments :
         ~JSONstringify(NewValue(t, value)).threw /\ SetValue(t, value, TRUE)
            => pending'[t] = Deserialized(store')]_vars

\* C2 amended: after every setter call that serializes and stores a value
\* JSON represents exactly, the hook's value equals the deserialized entry.
C2_StateMatchesStore ==
    [][\A t \in Tabs, value \in Arguments :
         /\ ~JSONstringify(NewValue(t, value)).threw
         /\ Serializable(NewValue(t, value))
         /\ SetValue(t, value, TRUE)
         => pending'[t] = Deserialized(store')]_vars

\* A tab has re-rendered with a value its setter stored: the entry holds the
\* text of that value, which the other tab has not been told of yet.
C2_Witness ==
    \E t \in Tabs :
        /\ phase[t] # "unmounted" /\ pending[t] = NoPending
        /\ storeOrigin = Origin(TRUE, Num(1))
        /\ storedValue[t] = Num(1)
        /\ store = Item("1")
        /\ \A u \in Tabs \ {t} : queue[u] > 0 /\ Latest(u) # Num(1)

\* C3 as stated, for the hook alone (SyncSpec): whatever setter calls were
\* made, literal or updater, re-rendered in between or not, the hook holds
\* the state a conventional reactive-state setter would hold.
C3_UpdaterSeesLatest ==
    \A t \in Tabs : phase[t] # "unmounted" => Latest(t) = ideal[t]

\* C4: a hook mounting while the entry holds what a setter call wrote for a
\* serializable value v starts with v.
C4_RoundTrip ==
    [][\A t \in Tabs :
         Mount(t) /\ storeOrigin.byHook /\ Serializable(storeOrigin.val)
            => storedValue'[t] = storeOrigin.val]_vars

\* A tab whose first render has just happened (its effect has not run) shows
\* the value the other tab's setter stored, not its own initial value.
C4_Witness ==
    \E t \in Tabs :
        /\ phase[t] = "rendered" /\ pending[t] = NoPending
        /\ storeOrigin.byHook /\ Serializable(storeOrigin.val)
        /\ storedValue[t] = storeOrigin.val
        /\ storedValue[t] # initialValue[t]
        /\ \E u \in Tabs \ {t} : phase[u] # "unmounted" /\ Latest(u) = storedValue[t]

\* Nothing is left to happen: no event waits, every tab has re-rendered and
\* has run its effect.
Quiescent ==
    \A t \in Tabs : queue[t] = 0 /\ pending[t] = NoPending /\ phase[t] # "rendered"

\* C5 as stated, for the hook alone (SyncSpec): once no event waits and every
\* tab has re-rendered and registered its listener, each mounted tab shows
\* the value of the entry the last setter call wrote.
C5_EventuallyConsistent ==
    Quiescent /\ storeOrigin.byHook
        => \A t \in Tabs : phase[t] = "listening" => storedValue[t] = Deserialized(store)

\* C7: a setter call that fails to serialize or to store still hands the new
\* value to React, leaves the entry as it was, warns and does not throw.
C7_FailedWrite ==
    [][\A t \in Tabs, value \in Arguments, q \in BOOLEAN :
         (JSONstringify(NewValue(t, value)).threw \/ ~q) /\ SetValue(t, value, q)
            => /\ pending'[t] = NewValue(t, value)
               /\ store' = store
               /\ setValue(storedValue[t], value, store, q).warned
               /\ ~setValue(storedValue[t], value, store, q).threw]_vars

\* A tab shows a value that cannot be serialized (only its setter can have
\* put it there) while the entry holds another value's text.
C7_Witness ==
    \E t \in Tabs :
        /\ phase[t] # "unmounted" /\ pending[t] = NoPending
        /\ storedValue[t] = Cyclic
        /\ store = Item("1")

\* C8: a read of the entry (first render, or the listener handling an event
\* of the hook's key) that finds it absent or not deserializable gives the
\* tab's initial value and throws nothing.
C8_ReadFallback ==
    [][\A t \in Tabs :
         Unreadable(store) /\ (Mount(t) \/ Handled(t))
            => /\ Latest(t)' = initialValue[t]
               /\ ~readValue(store, initialValue[t]).threw]_vars

\* A listening tab that showed a stored value is back at its initial value
\* after the entry was replaced by text that does not parse.
C8_Witness ==
    \E t \in Tabs :
        /\ phase[t] = "listening" /\ queue[t] = 0
        /\ store = Item("{oops")
        /\ storedValue[t] = Num(1)
        /\ pending[t] = initialValue[t]

(***************************************************************************)
(* useScroll                                                               *)
(***************************************************************************)
Offsets == 0..MaxScroll

\* First render with the given threshold: useState(false).
ScrollMount(th) ==
    /\ scrollPhase = "unmounted"
    /\ scrollPhase' = "mounted"
    /\ threshold' = th
    /\ scrolled' = FALSE
    /\ UNCHANGED <<scrollY, listener>>

\* The parent re-renders the component with another threshold: useCallback
\* makes a new onScroll, the state is kept.
ScrollRerender(th) ==
    /\ scrollPhase = "mounted"
    /\ th # threshold
    /\ threshold' = th
    /\ UNCHANGED <<scrollY, scrolled, scrollPhase, listener>>

\* The effect runs after a render that changed onScroll: the old listener is
\* removed, the new one added.
ScrollEffect ==
    /\ scrollPhase = "mounted"
    /\ listener # threshold
    /\ listener' = threshold
    /\ UNCHANGED <<scrollY, threshold, scrolled, scrollPhase>>

\* onScroll: setScrolled(window.scrollY > threshold), threshold being the
\* one the registered callback closes over.
onScroll(y, th) == y > th

\* The user scrolls the page; the scroll event runs the registered listener.
ScrollTo(y) ==
    /\ y # scrollY
    /\ scrollY' = y
    /\ scrolled' = IF listener # NoListener THEN onScroll(y, listener) ELSE scrolled
    /\ UNCHANGED <<threshold, scrollPhase, listener>>

\* Unmount: the cleanup removes the listener.
ScrollUnmount ==
    /\ scrollPhase = "mounted"
    /\ scrollPhase' = "unmounted"
    /\ listener' = NoListener
    /\ scrolled' = FALSE
    /\ UNCHANGED <<scrollY, threshold>>

NotScroll == UNCHANGED <<hookVars, ideal, timeVars, nameVars>>
ScrollNext ==
    \/ \E y \in Offsets : ScrollTo(y) /\ NotScroll
    \/ \E th \in Offsets : ScrollMount(th) /\ NotScroll
    \/ ScrollEffect /\ NotScroll
    \/ \E th \in Offsets : ScrollRerender(th) /\ NotScroll
    \/ ScrollUnmount /\ NotScroll

ScrollSpec == Init /\ [][ScrollNext]_vars

\* C6 as stated: while the hook is mounted its boolean is
\* (scrollY > threshold), in every state.
C6_ScrolledIsOffsetAboveThreshold ==
    scrollPhase = "mounted" => scrolled = (scrollY > threshold)

(***************************************************************************)
(* timeDifference                                                          *)
(***************************************************************************)
Abs(x) == IF x < 0 THEN -x ELSE x

\* A variant of timeDifference whose fields are running totals (no modulo).
TimeDifferenceRunningTotals(d1, d2) ==
    IF ~d1.valid \/ ~d2.valid
    THEN [called |-> TRUE, threw |-> TRUE,
          days |-> 0, hours |-> 0, minutes |-> 0, seconds |-> 0]
    ELSE LET diff == Abs(d1.ms - d2.ms)
         IN [called |-> TRUE, threw |-> FALSE,
             days |-> diff \div (1000 * 60 * 60 * 24),
             hours |-> diff \div (1000 * 60 * 60),
             minutes |-> diff \div (1000 * 60),
             seconds |-> diff \div 1000]

\* timeDifference(date1, date2): throws on an invalid date, else splits
\* |date1 - date2| into days, hours, minutes and seconds.
timeDifference(d1, d2) ==
    IF ~d1.valid \/ ~d2.valid
    THEN [called |-> TRUE, threw |-> TRUE,
          days |-> 0, hours |-> 0, minutes |-> 0, seconds |-> 0]
    ELSE LET diff == Abs(d1.ms - d2.ms)
         IN [called |-> TRUE, threw |-> FALSE,
             days |-> diff \div (1000 * 60 * 60 * 24),
             hours |-> (diff % (1000 * 60 * 60 * 24)) \div (1000 * 60 * 60),
             minutes |-> (diff % (1000 * 60 * 60)) \div (1000 * 60),
             seconds |-> (diff % (1000 * 60)) \div 1000]

\* The instants the arguments are drawn from: every unit at its least and
\* greatest value, up to MaxDays days.
Instants ==
    { Instant(d * 86400000 + h * 3600000 + m * 60000 + s * 1000 + ms) :
        d \in 0..MaxDays, h \in {0, 1, 23}, m \in {0, 59}, s \in {0, 59}, ms \in {0, 999} }
Dates == Instants \cup {InvalidDate}

CallTimeDifference ==
    /\ ~diffResult.called
    /\ diffResult' = timeDifference(date1, date2)
    /\ UNCHANGED <<date1, date2>>

TimeInit ==
    /\ HookIdle /\ ScrollIdle /\ NameIdle
    /\ date1 \in Dates
    /\ date2 \in Dates
    /\ diffResult = NoResult

TimeNext == CallTimeDifference /\ UNCHANGED <<hookVars, ideal, scrollVars, nameVars>>

TimeSpec == TimeInit /\ [][TimeNext]_vars

\* C9: for valid instants the result's fields are non-negative, hours,
\* minutes and seconds are below 24, 60 and 60, and the fields add up to the
\* whole seconds of |date1 - date2|; so the result does not depend on the
\* order of the arguments and is all zeros for equal ones.
C9_Decomposition ==
    diffResult.called /\ date1.valid /\ date2.valid
        => /\ ~diffResult.threw
           /\ diffResult.days >= 0
           /\ diffResult.hours \in 0..23
           /\ diffResult.minutes \in 0..59
           /\ diffResult.seconds \in 0..59
           /\ diffResult.days * 86400 + diffResult.hours * 3600
                + diffResult.minutes * 60 + diffResult.seconds
              = Abs(date1.ms - date2.ms) \div 1000
           /\ diffResult = timeDifference(date2, date1)
           /\ date1 = date2 => /\ diffResult.days = 0 /\ diffResult.hours = 0
                               /\ diffResult.minutes = 0 /\ diffResult.seconds = 0

\* The call returned for two instants more than a day, an hour, a minute and
\* a second apart, the later one given first.
C9_Witness ==
    /\ diffResult.called /\ ~diffResult.threw
    /\ date1.ms > date2.ms
    /\ diffResult.days > 0 /\ diffResult.hours = 23
    /\ diffResult.minutes = 59 /\ diffResult.seconds = 59

(***************************************************************************)
(* nameInitials                                                            *)
(***************************************************************************)
Space == " "
Tab == "\t"
Whitespace == {Space, Tab}
Alphabet == {"j", "D", Space, Tab}

\* String.prototype.toUpperCase on one character.
toUpperCase(c) == IF c = "j" THEN "J" ELSE c

\* String.prototype.trim: whitespace is removed from both ends.
RECURSIVE TrimStart(_)
TrimStart(s) ==
    IF s # <<>> /\ Head(s) \in Whitespace THEN TrimStart(Tail(s)) ELSE s
RECURSIVE TrimEnd(_)
TrimEnd(s) ==
    IF s # <<>> /\ s[Len(s)] \in Whitespace THEN TrimEnd(SubSeq(s, 1, Len(s) - 1)) ELSE s
trim(s) == TrimEnd(TrimStart(s))

\* String.prototype.split(separator): the pieces between the separators,
\* empty pieces included ("".split(" ") is [""]).
RECURSIVE split(_, _)
split(s, separators) ==
    IF s = <<>> THEN << <<>> >>
    ELSE LET rest == split(Tail(s), separators)
         IN IF Head(s) \in separators
            THEN << <<>> >> \o rest
            ELSE << <<Head(s)>> \o Head(rest) >> \o Tail(rest)

\* Array.prototype.filter(Boolean) on strings: the empty ones are dropped.
filterBoolean(parts) == SelectSeq(parts, LAMBDA x : x # <<>>)

\* charAt(0).toUpperCase(): the first character in upper case, or "" when
\* there is none.
UpperFirst(s) == IF s = <<>> THEN <<>> ELSE <<toUpperCase(s[1])>>

\* nameInitials(fullName); splitedName[0] of an empty array is undefined, and
\* charAt of undefined throws TypeError.
nameInitials(name) ==
    LET splitedName == filterBoolean(split(trim(name), {Space}))
    IN IF Len(splitedName) > 1
       THEN [called |-> TRUE, threw |-> FALSE,
             text |-> UpperFirst(splitedName[1]) \o UpperFirst(splitedName[Len(splitedName)])]
       ELSE IF Len(splitedName) = 0
            THEN [called |-> TRUE, threw |-> TRUE, text |-> <<>>]
            ELSE [called |-> TRUE, threw |-> FALSE, text |-> UpperFirst(splitedName[1])]

RECURSIVE Strings(_)
Strings(n) ==
    IF n = 0 THEN { <<>> }
    ELSE LET shorter == Strings(n - 1)
         IN shorter \cup { Append(s, c) : s \in shorter, c \in Alphabet }

CallNameInitials ==
    /\ ~initials.called
    /\ initials' = nameInitials(fullName)
    /\ UNCHANGED fullName

NameInit ==
    /\ HookIdle /\ ScrollIdle /\ TimeIdle
    /\ fullName \in Strings(MaxLen)
    /\ initials = NoInitials

NameNext == CallNameInitials /\ UNCHANGED <<hookVars, ideal, scrollVars, timeVars>>

NameSpec == NameInit /\ [][NameNext]_vars

\* The non-empty pieces of name between whitespace characters of any kind.
Segments(name) == filterBoolean(split(name, Whitespace))

\* C10 as stated: the segments are the pieces between whitespace characters
\* of any kind; two or more segments give the upper-cased first characters
\* of the first and the last, one segment gives its upper-cased first
\* character.
C10_InitialsOfWhitespaceSegments ==
    initials.called
        => LET segs == Segments(fullName)
           IN /\ Len(segs) >= 2
                    => /\ ~initials.threw
                       /\ initials.text
                            = <<toUpperCase(segs[1][1]), toUpperCase(segs[Len(segs)][1])>>
              /\ Len(segs) = 1
                    => /\ ~initials.threw
                       /\ initials.text = <<toUpperCase(segs[1][1])>>

====
